---- MODULE Spec2Model ----
(***************************************************************************)
(* A model of gpt-code-review: main.py's orchestrator, GithubClient's      *)
(* timeline reconciler and OpenAIClient's completion requester.            *)
(*                                                                         *)
(* Text is a sequence of tokens.  The markers the code searches for are    *)
(* tokens of their own (" diff ", "b/", "\n", " "); every other token is a *)
(* run of characters that contains none of them and cannot form one across *)
(* a token boundary, so str.split / str.splitlines / str.strip on the text *)
(* are exactly the token-level operators below.                            *)
(*                                                                         *)
(* The code fence of three backquotes is written ''' in the texts below.    *)
(*                                                                         *)
(* A Python value is a record [t, s]: t its type, s its text (str(v) for   *)
(* an int or a float, the characters for a str, empty for None).           *)
(***************************************************************************)
EXTENDS Integers, Sequences, FiniteSets, TLC

\* ---- bounds of the model ------------------------------------------------
\* total number of timeline events the host holds
MaxEvents == 3
\* number of per-file segments the host joins into a patch
MaxSegs == 3
\* number of commits of the pull request
MaxCommits == 2
\* number of files of a commit
MaxFiles == 2

\* ---- Python values ------------------------------------------------------
PyNone == [t |-> "none", s |-> <<>>]
\* a name not bound yet
PyUnbound == [t |-> "unbound", s |-> <<>>]
PyStr(s) == [t |-> "str", s |-> s]
PyInt(tok) == [t |-> "int", s |-> <<tok>>]
PyFloat(tok) == [t |-> "float", s |-> <<tok>>]
\* the object a call of a generator function returns; its body has not run
PyGenerator == [t |-> "generator", s |-> <<"<generator object OpenAIClient.generate_response>">>]

\* bool(v): None and the empty string are false
Truthy(v) == v.t # "none" /\ v.s # <<>>

\* what an f-string's {v} writes
Format(v) == IF v.t = "none" THEN <<"None">> ELSE v.s

\* ---- text operators -----------------------------------------------------
SP == " "
NL == "\n"
BSLASH == "b/"
DIFF == " diff "

RECURSIVE LStrip(_)
LStrip(s) == IF s # <<>> /\ Head(s) = SP THEN LStrip(Tail(s)) ELSE s

RECURSIVE RStrip(_)
RStrip(s) == IF s # <<>> /\ s[Len(s)] = SP THEN RStrip(SubSeq(s, 1, Len(s) - 1)) ELSE s

\* str.strip()
Strip(s) == RStrip(LStrip(s))

\* the first index of sep in s, 0 when there is none
FirstIndex(s, sep) ==
    IF \E i \in 1..Len(s) : s[i] = sep
    THEN CHOOSE i \in 1..Len(s) : s[i] = sep /\ \A j \in 1..(i - 1) : s[j] # sep
    ELSE 0

RECURSIVE SplitOn(_, _)
\* str.split(sep): always at least one piece, empty pieces kept
SplitOn(s, sep) ==
    LET i == FirstIndex(s, sep)
    IN  IF i = 0 THEN <<s>>
        ELSE <<SubSeq(s, 1, i - 1)>> \o SplitOn(SubSeq(s, i + 1, Len(s)), sep)

RECURSIVE SplitLines(_)
\* str.splitlines(): no piece for the empty text, none after a final newline
SplitLines(s) ==
    IF s = <<>> THEN <<>>
    ELSE LET i == FirstIndex(s, NL)
         IN  IF i = 0 THEN <<s>>
             ELSE <<SubSeq(s, 1, i - 1)>> \o SplitLines(SubSeq(s, i + 1, Len(s)))

RECURSIVE Join(_, _)
\* sep.join(parts)
Join(parts, sep) ==
    IF parts = <<>> THEN <<>>
    ELSE IF Len(parts) = 1 THEN parts[1]
    ELSE parts[1] \o <<sep>> \o Join(Tail(parts), sep)

RECURSIVE Flatten(_)
Flatten(ss) == IF ss = <<>> THEN <<>> ELSE Head(ss) \o Flatten(Tail(ss))

\* the sequences over S of length 0..n
SeqsUpTo(S, n) == UNION {[1..k -> S] : k \in 0..n}


\* ---- configuration ------------------------------------------------------
\* the texts int() accepts, and str(int(text))
IntLiterals == {"123", "2000", "0050"}
IntCanon(tok) == IF tok = "0050" THEN "50" ELSE tok

\* the texts float() accepts, and str(float(text))
FloatLiterals == {"0.70", "1"}
FloatCanon(tok) == IF tok = "0.70" THEN "0.7" ELSE "1.0"

Template == <<"Review the code below.">>

\* the environments a run can start in: every variable set or unset, at most
\* one of them unusable
RawValues ==
    [GH_TOKEN           |-> {PyStr(<<"ghp_token">>), PyNone},
     OPENAI_API_KEY     |-> {PyStr(<<"sk_key">>)},
     GITHUB_PR_ID       |-> {PyStr(<<"123">>), PyStr(<<"abc">>)},
     GITHUB_REVIEWER    |-> {PyStr(<<"alice">>), PyStr(<<"bob", SP>>)},
     OPENAI_MODEL       |-> {PyStr(<<"gpt-4">>)},
     OPENAI_TEMPERATURE |-> {PyStr(<<"0.70">>), PyStr(<<"abc">>)},
     OPENAI_MAX_TOKENS  |-> {PyStr(<<"2000">>), PyStr(<<"abc">>)},
     MODE               |-> {PyStr(<<"files">>), PyStr(<<"patch">>), PyStr(<<"invalid">>)},
     LANGUAGE           |-> {PyStr(<<"en">>), PyStr(<<"fr">>)},
     CUSTOM_PROMPT      |-> {PyNone, PyStr(<<>>), PyStr(Template)}]

VarNames == DOMAIN RawValues

\* main.py's table of variables: name -> (type, required)
VarType(var) ==
    IF var \in {"GITHUB_PR_ID", "OPENAI_MAX_TOKENS"} THEN "int"
    ELSE IF var = "OPENAI_TEMPERATURE" THEN "float"
    ELSE "str"

VarRequired(var) == var # "CUSTOM_PROMPT"

\* utils.helpers.get_env_variable: the value, or a ValueError for a required
\* variable that is unset or empty
GetEnvVariableRaises(raw, var) == VarRequired(var) /\ ~Truthy(raw[var])

\* a faulty ConvertRaises: any text converts
ConvertNeverRaises(type, value) == FALSE

\* var_type(value) raises ValueError
ConvertRaises(type, value) ==
    \/ type = "int" /\ ~(Len(value.s) = 1 /\ value.s[1] \in IntLiterals)
    \/ type = "float" /\ ~(Len(value.s) = 1 /\ value.s[1] \in FloatLiterals)

\* var_type(value)
Convert(type, value) ==
    IF type = "int" THEN PyInt(IntCanon(value.s[1]))
    ELSE IF type = "float" THEN PyFloat(FloatCanon(value.s[1]))
    ELSE value

GetEnvVarsRaises(raw) ==
    \E var \in VarNames :
        \/ GetEnvVariableRaises(raw, var)
        \/ Truthy(raw[var]) /\ ConvertRaises(VarType(var), raw[var])

\* get_env_vars: each value converted, None for an optional one left empty
GetEnvVars(raw) ==
    [var \in VarNames |->
        IF Truthy(raw[var]) THEN Convert(VarType(var), raw[var]) ELSE PyNone]

Unusable(raw) ==
    {var \in VarNames :
        \/ GetEnvVariableRaises(raw, var)
        \/ Truthy(raw[var]) /\ ConvertRaises(VarType(var), raw[var])}

RawEnvs ==
    {raw \in [GH_TOKEN : RawValues.GH_TOKEN, OPENAI_API_KEY : RawValues.OPENAI_API_KEY,
              GITHUB_PR_ID : RawValues.GITHUB_PR_ID, GITHUB_REVIEWER : RawValues.GITHUB_REVIEWER,
              OPENAI_MODEL : RawValues.OPENAI_MODEL,
              OPENAI_TEMPERATURE : RawValues.OPENAI_TEMPERATURE,
              OPENAI_MAX_TOKENS : RawValues.OPENAI_MAX_TOKENS, MODE : RawValues.MODE,
              LANGUAGE : RawValues.LANGUAGE, CUSTOM_PROMPT : RawValues.CUSTOM_PROMPT] :
        Cardinality(Unusable(raw)) <= 1}

NoEnv == [var \in VarNames |-> PyNone]

\* ---- the timeline reconciler ---------------------------------------------
\* a timeline event: its type, and the login of its requested_reviewer (None
\* when the event carries no requested_reviewer, as a team request does)
Events ==
    {[event |-> "review_requested", requested_reviewer |-> PyStr(<<"alice">>)],
     [event |-> "review_requested", requested_reviewer |-> PyStr(<<"bob">>)],
     [event |-> "review_requested", requested_reviewer |-> PyNone],
     [event |-> "review_request_removed", requested_reviewer |-> PyStr(<<"bob">>)]}

\* the filter of get_most_recent_reviewer's paging loop
IsReviewRequest(e) == e.event = "review_requested" /\ Truthy(e.requested_reviewer)

\* a faulty FilterEvents: a page's matches replace the accumulator
FilterKeepsLastPage(filtered, events) == SelectSeq(events, IsReviewRequest)

\* filtered_events after one page: the page's matches appended in page order
FilterEvents(filtered, events) == filtered \o SelectSeq(events, IsReviewRequest)

\* the scan after the loop: the first hit of reversed(filtered_events), or None
MostRecentOf(filtered) ==
    IF filtered = <<>> THEN PyNone ELSE filtered[Len(filtered)].requested_reviewer


\* ---- the review prompt ---------------------------------------------------
CustomCodeOpen == "\n### Code\n'''"
CustomLanguage == "'''\n\nWrite this code review in the following "
CustomEnd == ":\n\n"
RubricIntro == "You are now an expert code reviewer. [...] Keep your responses within the defined max token limit of "
RubricSummarize == ", ensuring you summarize as necessary [...] Write this code review in the following "
RubricCodeOpen == ":\n\nDo not write the code or guidelines in the review. Only write the review itself.\n\n### Code\n'''"
RubricGuidelines == "'''\n\n### Review Guidelines\n1. **Clarity** [...] ### Review Example [...]"

RubricText == {RubricIntro, RubricSummarize, RubricCodeOpen, RubricGuidelines}

\* create_review_prompt(content, language, max_tokens, custom_prompt=None)
CreateReviewPrompt(content, language, max_tokens, custom_prompt) ==
    IF Truthy(custom_prompt)
    THEN Format(custom_prompt) \o <<CustomCodeOpen>> \o content
         \o <<CustomLanguage>> \o Format(language) \o <<CustomEnd>>
    ELSE <<RubricIntro>> \o Format(max_tokens) \o <<RubricSummarize>> \o Format(language)
         \o <<RubricCodeOpen>> \o content \o <<RubricGuidelines>>

\* the call both analyze_commit_files and analyze_patch make: three positional
\* arguments, so the third binds to max_tokens and custom_prompt keeps its default
CallCreateReviewPrompt(content, language, custom_prompt) ==
    CreateReviewPrompt(content, language, custom_prompt, PyNone)

\* ---- the completion requester --------------------------------------------
\* generate_response holds a yield (openai_client.py:70), so it is a generator
\* function: a call runs none of its body, sends nothing, and returns the
\* generator object, whatever stream is
GenerateResponse(prompt, stream) == [value |-> PyGenerator, requests |-> 0]

\* the comment analyze_commit_files and analyze_patch post
ReviewComment(oai_model, mode, oai_temp, rev) ==
    <<"ChatGPT model: ">> \o Format(oai_model) \o <<"\n mode: ">> \o Format(mode)
    \o <<"\n temperature: ">> \o Format(oai_temp) \o <<"\n ">> \o Format(rev)

NoChangesComment == <<"Patch file does not contain any changes">>

\* ---- files mode ----------------------------------------------------------
CommitShas == {"c1", "c2"}
FileNames == {<<"a.py">>, <<"b.py">>}
Contents == {<<"print(1)">>, <<"x = 5">>}

FileHeader == "\n### File: "

\* the block analyze_commit_files adds for one file
ContentBlock(filename, content) ==
    <<FileHeader>> \o filename \o <<"\n'''">> \o content \o <<"'''\n">>

\* ---- the diff segmenter --------------------------------------------------
SegPlain == <<"--git a/a.py ", BSLASH, "a.py", NL, "+x">>
\* "+++ b/lib/c.py\n+y": a path with a directory whose name ends in b
SegLib == <<"+++ ", BSLASH, "li", BSLASH, "c.py", NL, "+y">>
\* "+++ b/b/d.py\n+z": a path under a directory named b
SegDouble == <<"+++ ", BSLASH, BSLASH, "d.py", NL, "+z">>
SegNoMarker == <<"--git a/a.py">>
SegNoLine == <<"--git a/a.py ", BSLASH>>
SegEmpty == <<>>

\* the per-file texts the host joins with " diff " into a patch; none holds
\* the delimiter
Segments == {SegPlain, SegLib, SegDouble, SegNoMarker, SegNoLine, SegEmpty}

\* a faulty PatchIsEmpty: no patch is taken for empty
PatchNeverEmpty(text) == FALSE

\* process_patch's test: not patch_content
PatchIsEmpty(text) == ~Truthy(PyStr(text))

\* chgs_text.split("b/")[1].splitlines()[0] raises IndexError
FileNameRaises(chgs_text) ==
    \/ Len(SplitOn(chgs_text, BSLASH)) < 2
    \/ SplitLines(SplitOn(chgs_text, BSLASH)[2]) = <<>>

\* chgs_text.split("b/")[1].splitlines()[0]
FileNameOf(chgs_text) == SplitLines(SplitOn(chgs_text, BSLASH)[2])[1]

ChgsOpen == "\n'''chgs\n"

\* the block analyze_patch adds for one chunk
ChgsBlock(name, chgs_text) ==
    <<FileHeader>> \o name \o <<ChgsOpen>> \o chgs_text \o <<"'''\n">>

\* the exceptions analyze_patch's handler names
Caught == {"TypeError", "ValueError"}

UnableComment(name, e) ==
    <<"ChatGPT was unable to process the response for ">> \o Format(name) \o <<": ", e>>


\* ---- the state of one run -------------------------------------------------
VARIABLES
    environ,          \* the process environment main starts in
    pc,               \* where the run stands: the call about to be made, "done", "raised"
    exc,              \* the exception that left main, "" when none
    env_vars,         \* main's env_vars
    log,              \* the warnings and errors logged so far
    fetched,          \* the timeline pages the host has answered, in request order
    filtered_events,  \* get_most_recent_reviewer's accumulator
    page,             \* get_most_recent_reviewer's page counter
    page_requests,    \* the timeline requests it has sent: (page, per_page)
    most_recent,      \* what get_most_recent_reviewer returned
    entered,          \* the functions of main.py entered so far
    dispatched,       \* main's calls of process_files and process_patch, with their arguments
    calls,            \* the outbound calls made so far, by kind
    commits,          \* process_files' commits
    files,            \* analyze_commit_files' files
    file_i,           \* the position of its loop over files
    combined_content, \* analyze_commit_files' combined_content
    host_segments,    \* the per-file texts the host joined into the patch
    patch_content,    \* process_patch's patch_content
    chunks,           \* patch_content.split(" diff ")
    chunk_i,          \* the position of analyze_patch's loop over chunks
    file_name,        \* analyze_patch's file_name
    combined_chgs,    \* analyze_patch's combined_chgs
    review_prompt,    \* the prompt handed to generate_response
    review,           \* what generate_response returned
    comments          \* the bodies of the comments created on the pull request

reconcilerVars == <<fetched, filtered_events, page, page_requests>>
filesVars == <<commits, files, file_i, combined_content>>
patchVars == <<host_segments, patch_content, chunks, chunk_i, file_name, combined_chgs>>
reviewVars == <<review_prompt, review>>

vars == <<pc, exc, environ, env_vars, log, reconcilerVars, most_recent, entered, dispatched, calls,
          filesVars, patchVars, reviewVars, comments>>

NoCalls == [get_repo |-> 0, get_pr |-> 0, get_commits |-> 0, commit_files |-> 0,
            get_patch |-> 0, completion |-> 0]

Init ==
    /\ pc = "start"
    /\ exc = ""
    /\ environ \in RawEnvs
    /\ env_vars = NoEnv
    /\ log = {}
    /\ fetched = <<>>
    /\ filtered_events = <<>>
    /\ page = 1
    /\ page_requests = <<>>
    /\ most_recent = PyUnbound
    /\ entered = {}
    /\ dispatched = <<>>
    /\ calls = NoCalls
    /\ commits = <<>>
    /\ files = <<>>
    /\ file_i = 1
    /\ combined_content = <<>>
    /\ host_segments = <<>>
    /\ patch_content = <<>>
    /\ chunks = <<>>
    /\ chunk_i = 1
    /\ file_name = PyUnbound
    /\ combined_chgs = <<>>
    /\ review_prompt = <<>>
    /\ review = PyUnbound
    /\ comments = <<>>

\* ---- main: configuration and clients ---------------------------------------
\* main's first lines: get_env_vars, and its ValueError logged and swallowed
LoadConfig ==
    /\ pc = "start"
    /\ LET raw == environ
       IN
        IF GetEnvVarsRaises(raw)
        THEN /\ log' = log \cup {"Environment variable error"}
             /\ pc' = "done"
             /\ UNCHANGED env_vars
        ELSE /\ env_vars' = GetEnvVars(raw)
             /\ pc' = "clients"
             /\ UNCHANGED log
    /\ UNCHANGED <<exc, environ, reconcilerVars, most_recent, entered, dispatched, calls,
                   filesVars, patchVars, reviewVars, comments>>

\* GithubClient(token), whose constructor fetches the repository, and OpenAIClient(...)
ConstructClients ==
    /\ pc = "clients"
    /\ calls' = [calls EXCEPT !.get_repo = @ + 1]
    /\ pc' = "timeline"
    /\ UNCHANGED <<exc, environ, env_vars, dispatched, log, reconcilerVars, most_recent, entered,
                   filesVars, patchVars, reviewVars, comments>>

\* ---- get_most_recent_reviewer -------------------------------------------------
\* the events the host has served so far
Served == Flatten(fetched)

\* the page size written into the request's url
PerPage == 100

\* the request the loop sends for a page: ?page={page}&per_page=100
PageRequest(p) == [page |-> p, per_page |-> PerPage]

\* a faulty NextPage: the counter is left where it was
NextPageStuck(p) == p

\* page += 1
NextPage(p) == p + 1

\* one turn of the paging loop on a page that holds events
TimelinePage ==
    /\ pc = "timeline"
    /\ page_requests' = Append(page_requests, PageRequest(page))
    /\ \E events \in SeqsUpTo(Events, MaxEvents - Len(Served)) :
        /\ events # <<>>
        /\ fetched' = Append(fetched, events)
        /\ filtered_events' = FilterEvents(filtered_events, events)
    /\ page' = NextPage(page)
    /\ UNCHANGED <<pc, exc, environ, env_vars, dispatched, log, most_recent, entered, calls,
                   filesVars, patchVars, reviewVars, comments>>

\* the empty page: the loop breaks, the accumulator is scanned from its end and
\* the login (or None) returned
TimelineEnd ==
    /\ pc = "timeline"
    /\ page_requests' = Append(page_requests, PageRequest(page))
    /\ fetched' = Append(fetched, <<>>)
    /\ most_recent' = MostRecentOf(filtered_events)
    /\ pc' = "resolved"
    /\ UNCHANGED <<exc, environ, env_vars, dispatched, log, filtered_events, page, entered, calls,
                   filesVars, patchVars, reviewVars, comments>>

\* ---- main: the reviewer check and the branch on mode ---------------------------
\* main's reviewer: the configured login stripped
Reviewer(env) == PyStr(Strip(env.GITHUB_REVIEWER.s))

\* a faulty ReviewerMatches: it passes whoever was requested
ReviewerAlwaysMatches(login, env) == TRUE

\* github_client.get_most_recent_reviewer(pr_id) == reviewer
ReviewerMatches(login, env) == login = Reviewer(env)

\* a faulty ModeBranch: any mode that is not "files" is handled as "patch"
ModeBranchNoElse(mode) == IF mode = PyStr(<<"files">>) THEN "files" ELSE "patch"

\* a faulty CallArgs: language and custom_prompt change places
CallArgsSwapped(env) ==
    <<"github_client", "openai_client", env.GITHUB_PR_ID, env.CUSTOM_PROMPT, env.LANGUAGE,
      env.OPENAI_MODEL, env.MODE, env.OPENAI_TEMPERATURE>>

\* the arguments main passes to process_files and to process_patch, in the
\* order of the call: (github_client, openai_client, pr_id, language,
\* custom_prompt, oai_model, mode, oai_temp)
CallArgs(env) ==
    <<"github_client", "openai_client", env.GITHUB_PR_ID, env.LANGUAGE, env.CUSTOM_PROMPT,
      env.OPENAI_MODEL, env.MODE, env.OPENAI_TEMPERATURE>>

\* main's if / elif / else on mode
ModeBranch(mode) ==
    IF mode = PyStr(<<"files">>) THEN "files"
    ELSE IF mode = PyStr(<<"patch">>) THEN "patch"
    ELSE "invalid"

Dispatch ==
    /\ pc = "resolved"
    /\ IF ReviewerMatches(most_recent, env_vars)
       THEN LET branch == ModeBranch(env_vars.MODE)
            IN  /\ pc' = IF branch = "files" THEN "get_pr"
                         ELSE IF branch = "patch" THEN "get_patch"
                         ELSE "done"
                /\ entered' = IF branch = "files" THEN entered \cup {"process_files"}
                              ELSE IF branch = "patch" THEN entered \cup {"process_patch"}
                              ELSE entered
                /\ dispatched' =
                        IF branch = "files"
                        THEN Append(dispatched, [fn |-> "process_files", args |-> CallArgs(env_vars)])
                        ELSE IF branch = "patch"
                        THEN Append(dispatched, [fn |-> "process_patch", args |-> CallArgs(env_vars)])
                        ELSE dispatched
                /\ log' = IF branch = "invalid" THEN log \cup {"Invalid mode"} ELSE log
       ELSE /\ pc' = "done"
            /\ log' = log \cup {"No action taken"}
            /\ UNCHANGED <<entered, dispatched>>
    \* get_most_recent_reviewer's frame is gone
    /\ fetched' = <<>>
    /\ filtered_events' = <<>>
    /\ page' = 1
    /\ page_requests' = <<>>
    /\ UNCHANGED <<exc, environ, env_vars, most_recent, calls,
                   filesVars, patchVars, reviewVars, comments>>


\* ---- files mode: process_files and analyze_commit_files -------------------------
\* github_client.get_pr(pr_id)
GetPr ==
    /\ pc = "get_pr"
    /\ calls' = [calls EXCEPT !.get_pr = @ + 1]
    /\ pc' = "get_commits"
    /\ UNCHANGED <<exc, environ, env_vars, dispatched, log, reconcilerVars, most_recent, entered,
                   filesVars, patchVars, reviewVars, comments>>

\* list(pull_request.get_commits()); with commits, analyze_commit_files is
\* entered with the last one
GetCommits ==
    /\ pc = "get_commits"
    /\ calls' = [calls EXCEPT !.get_commits = @ + 1]
    /\ \E cs \in SeqsUpTo(CommitShas, MaxCommits) :
        /\ commits' = cs
        /\ IF cs = <<>>
           THEN pc' = "done" /\ UNCHANGED entered
           ELSE pc' = "commit_files" /\ entered' = entered \cup {"analyze_commit_files"}
    /\ UNCHANGED <<exc, environ, env_vars, dispatched, log, reconcilerVars, most_recent,
                   files, file_i, combined_content, patchVars, reviewVars, comments>>

\* github_client.get_commit_files(commit): the files of commits[-1]
GetCommitFiles ==
    /\ pc = "commit_files"
    /\ calls' = [calls EXCEPT !.commit_files = @ + 1]
    /\ \E fs \in SeqsUpTo(FileNames, MaxFiles) : files' = fs
    /\ file_i' = 1
    /\ combined_content' = <<>>
    /\ pc' = "file_content"
    /\ UNCHANGED <<exc, environ, env_vars, dispatched, log, reconcilerVars, most_recent, entered,
                   commits, patchVars, reviewVars, comments>>

\* one turn of the loop over files: the file's content fetched and its block added
GetFileContent ==
    /\ pc = "file_content"
    /\ file_i <= Len(files)
    /\ \E content \in Contents :
        combined_content' = combined_content \o ContentBlock(files[file_i], content)
    /\ file_i' = file_i + 1
    /\ UNCHANGED <<pc, exc, environ, env_vars, dispatched, log, reconcilerVars, most_recent, entered, calls,
                   commits, files, patchVars, reviewVars, comments>>

\* after the loop: the prompt is built and generate_response called
ReviewFiles ==
    /\ pc = "file_content"
    /\ file_i > Len(files)
    /\ LET prompt == CallCreateReviewPrompt(combined_content, env_vars.LANGUAGE,
                                            env_vars.CUSTOM_PROMPT)
           answer == GenerateResponse(prompt, FALSE)
       IN  /\ review_prompt' = prompt
           /\ review' = answer.value
           /\ calls' = [calls EXCEPT !.completion = @ + answer.requests]
    /\ pc' = "post_review"
    /\ UNCHANGED <<exc, environ, env_vars, dispatched, log, reconcilerVars, most_recent, entered,
                   filesVars, patchVars, comments>>

\* ---- patch mode: process_patch and analyze_patch ---------------------------------
\* github_client.get_pr_patch(pr_id), the test for an empty patch, and
\* analyze_patch's split
GetPrPatch ==
    /\ pc = "get_patch"
    /\ calls' = [calls EXCEPT !.get_patch = @ + 1]
    /\ \E segs \in SeqsUpTo(Segments, MaxSegs) :
        LET text == Join(segs, DIFF)
        IN  /\ host_segments' = segs
            /\ patch_content' = text
            /\ IF PatchIsEmpty(text)
               THEN /\ pc' = "post_no_changes"
                    /\ UNCHANGED <<chunks, entered>>
               ELSE /\ pc' = "chunks"
                    /\ chunks' = SplitOn(text, DIFF)
                    /\ entered' = entered \cup {"analyze_patch"}
    /\ chunk_i' = 1
    /\ combined_chgs' = <<>>
    /\ UNCHANGED <<exc, environ, env_vars, dispatched, log, reconcilerVars, most_recent,
                   filesVars, file_name, reviewVars, comments>>

\* process_patch's comment on an empty patch, and its return
PostNoChanges ==
    /\ pc = "post_no_changes"
    /\ calls' = [calls EXCEPT !.get_pr = @ + 1]
    /\ comments' = Append(comments, NoChangesComment)
    /\ pc' = "done"
    /\ UNCHANGED <<exc, environ, env_vars, dispatched, log, reconcilerVars, most_recent, entered,
                   filesVars, patchVars, reviewVars>>

\* one turn of the loop over chunks.  An empty chunk is skipped.  The name
\* lookup raises IndexError on a chunk without a marker or without text after
\* it; the handler names TypeError and ValueError only, so the IndexError
\* leaves analyze_patch and main.
AnalyzeChunk ==
    /\ pc = "chunks"
    /\ chunk_i <= Len(chunks)
    /\ LET chgs_text == chunks[chunk_i]
       IN  IF chgs_text = <<>>
           THEN UNCHANGED <<pc, exc, log, file_name, combined_chgs, comments>>
           ELSE IF ~FileNameRaises(chgs_text)
           THEN /\ file_name' = PyStr(FileNameOf(chgs_text))
                /\ combined_chgs' = combined_chgs \o ChgsBlock(FileNameOf(chgs_text), chgs_text)
                /\ UNCHANGED <<pc, exc, log, comments>>
           ELSE IF "IndexError" \in Caught
           THEN /\ log' = log \cup {"Error processing changes for file"}
                /\ comments' = Append(comments, UnableComment(file_name, "IndexError"))
                /\ UNCHANGED <<pc, exc, file_name, combined_chgs>>
           ELSE /\ pc' = "raised"
                /\ exc' = "IndexError"
                /\ UNCHANGED <<log, file_name, combined_chgs, comments>>
    /\ chunk_i' = chunk_i + 1
    /\ UNCHANGED <<environ, env_vars, dispatched, reconcilerVars, most_recent, entered, calls,
                   filesVars, host_segments, patch_content, chunks, reviewVars>>

\* after the loop: the prompt is built and generate_response called
ReviewPatch ==
    /\ pc = "chunks"
    /\ chunk_i > Len(chunks)
    /\ LET prompt == CallCreateReviewPrompt(combined_chgs, env_vars.LANGUAGE,
                                            env_vars.CUSTOM_PROMPT)
           answer == GenerateResponse(prompt, FALSE)
       IN  /\ review_prompt' = prompt
           /\ review' = answer.value
           /\ calls' = [calls EXCEPT !.completion = @ + answer.requests]
    /\ pc' = "post_review"
    /\ UNCHANGED <<exc, environ, env_vars, dispatched, log, reconcilerVars, most_recent, entered,
                   filesVars, patchVars, comments>>

\* ---- the review comment ------------------------------------------------------
\* github_client.post_comment(pr_id, ...): the pull request fetched again and
\* the comment created on it
PostReview ==
    /\ pc = "post_review"
    /\ calls' = [calls EXCEPT !.get_pr = @ + 1]
    /\ comments' = Append(comments,
                          ReviewComment(env_vars.OPENAI_MODEL, env_vars.MODE,
                                        env_vars.OPENAI_TEMPERATURE, review))
    /\ pc' = "done"
    /\ UNCHANGED <<exc, environ, env_vars, dispatched, log, reconcilerVars, most_recent, entered,
                   filesVars, patchVars, reviewVars>>

\* ---- failures ------------------------------------------------------------------
\* the positions at which the next step is a call to the host
Outbound ==
    {"clients", "timeline", "get_pr", "get_commits", "commit_files", "get_patch",
     "post_no_changes", "post_review"}
    \cup (IF file_i <= Len(files) THEN {"file_content"} ELSE {})

\* a faulty TransportError: a failed timeline fetch is logged and the logins
\* gathered so far are used, as is_reviewer_assigned answers False after its log
TransportErrorSwallowed ==
    /\ pc \in Outbound
    /\ log' = log \cup {"Error at " \o pc}
    /\ IF pc = "timeline"
       THEN /\ page_requests' = Append(page_requests, PageRequest(page))
            /\ most_recent' = MostRecentOf(filtered_events)
            /\ pc' = "resolved"
            /\ UNCHANGED exc
       ELSE /\ exc' = "RequestError"
            /\ pc' = "raised"
            /\ UNCHANGED <<page_requests, most_recent>>
    /\ UNCHANGED <<environ, env_vars, dispatched, fetched, filtered_events, page, entered, calls,
                   filesVars, patchVars, reviewVars, comments>>

\* a call to the host fails: every client method logs the error and raises it
\* again, and nothing in main.py catches it.  A timeline request that fails
\* was sent.
TransportError ==
    /\ pc \in Outbound
    /\ log' = log \cup {"Error at " \o pc}
    /\ exc' = "RequestError"
    /\ pc' = "raised"
    /\ page_requests' = IF pc = "timeline"
                        THEN Append(page_requests, PageRequest(page))
                        ELSE page_requests
    /\ UNCHANGED <<environ, env_vars, dispatched, fetched, filtered_events, page, most_recent, entered, calls,
                   filesVars, patchVars, reviewVars, comments>>

\* the status the interpreter exits with once main() is over: 0 when main
\* returned, 1 when an exception left it
ExitStatus == IF pc = "raised" THEN 1 ELSE 0

Next ==
    \/ LoadConfig
    \/ ConstructClients
    \/ TimelinePage
    \/ TimelineEnd
    \/ Dispatch
    \/ GetPr
    \/ GetCommits
    \/ GetCommitFiles
    \/ GetFileContent
    \/ ReviewFiles
    \/ GetPrPatch
    \/ PostNoChanges
    \/ AnalyzeChunk
    \/ ReviewPatch
    \/ PostReview
    \/ TransportError

Spec == Init /\ [][Next]_vars

TypeOK ==
    /\ pc \in {"start", "clients", "timeline", "resolved", "get_pr", "get_commits",
               "commit_files", "file_content", "get_patch", "post_no_changes", "chunks",
               "post_review", "done", "raised"}
    /\ exc \in {"", "IndexError", "RequestError"}
    /\ most_recent \in {PyUnbound, PyNone, PyStr(<<"alice">>), PyStr(<<"bob">>)}
    /\ entered \subseteq {"process_files", "process_patch", "analyze_commit_files", "analyze_patch"}
    /\ Len(Served) <= MaxEvents
    /\ Len(host_segments) <= MaxSegs


\* ---- C1 ------------------------------------------------------------------------
\* an event the claim counts: a review request that names a reviewer
C1_Counts(e) == e.event = "review_requested" /\ e.requested_reviewer # PyNone

\* the positions of the counted events in the concatenation of every page served
C1_Positions == {i \in 1..Len(Served) : C1_Counts(Served[i])}

\* C1: when get_most_recent_reviewer returns, its result is the login of the
\* last review request naming a reviewer among the events of all the pages
\* served, in page order then in-page order, and it is None exactly when no
\* page holds such an event.
C1_LastRequestOfAllPages ==
    pc = "resolved" =>
        IF C1_Positions = {}
        THEN most_recent = PyNone
        ELSE /\ most_recent # PyNone
             /\ \E i \in C1_Positions :
                    /\ \A j \in C1_Positions : j <= i
                    /\ most_recent = Served[i].requested_reviewer

\* two pages of events were served before the empty one, the first holds a
\* request for alice, the second holds events but no request naming a reviewer
C1_Witness ==
    /\ pc = "resolved"
    /\ Len(fetched) = 3
    /\ \E i \in 1..Len(fetched[1]) : fetched[1][i].requested_reviewer = PyStr(<<"alice">>)
                                      /\ C1_Counts(fetched[1][i])
    /\ fetched[2] # <<>>
    /\ \A i \in 1..Len(fetched[2]) : ~C1_Counts(fetched[2][i])
    /\ most_recent = PyStr(<<"alice">>)

\* ---- C2 ------------------------------------------------------------------------
\* get_most_recent_reviewer has returned and main has acted on its result
C2_Compared == most_recent # PyUnbound /\ pc # "resolved"

C2_NoAction ==
    /\ pc = "done"
    /\ exc = ""
    /\ comments = <<>>
    /\ calls.completion = 0
    /\ entered \cap {"process_files", "process_patch"} = {}

\* C2 as stated: whenever the login returned differs from the configured
\* GITHUB_REVIEWER, the run ends normally with no comment, no completion
\* request, and neither process_files nor process_patch entered.
C2_AsStated ==
    (C2_Compared /\ most_recent # env_vars.GITHUB_REVIEWER) => C2_NoAction

\* C2 amended: whenever the login returned differs from the configured
\* GITHUB_REVIEWER with its leading and trailing whitespace removed, the run
\* ends normally with no comment, no completion request, and neither
\* process_files nor process_patch entered.
C2_MismatchIsNoOp ==
    (C2_Compared /\ most_recent # PyStr(Strip(env_vars.GITHUB_REVIEWER.s))) => C2_NoAction

\* configured alice, resolved bob: the run has ended with the warning logged
C2_Witness ==
    /\ pc = "done"
    /\ env_vars.GITHUB_REVIEWER = PyStr(<<"alice">>)
    /\ most_recent = PyStr(<<"bob">>)
    /\ "No action taken" \in log


\* ---- C3 ------------------------------------------------------------------------
\* C3: once the orchestrator's generate_response(prompt) call (stream=False)
\* has returned, exactly one completion request has been issued and the value
\* returned is the generated text, a string, which the posted comment embeds.
C3_BlockingCallReturnsText ==
    pc \in {"post_review", "done"} /\ review # PyUnbound =>
        /\ calls.completion = 1
        /\ review.t = "str"

\* ---- C4 ------------------------------------------------------------------------
\* the text every review comment starts with
C4_Prefix ==
    <<"ChatGPT model: ">> \o env_vars.OPENAI_MODEL.s \o <<"\n mode: ", "files">>
    \o <<"\n temperature: ">> \o env_vars.OPENAI_TEMPERATURE.s \o <<"\n ">>

\* C4: a files-mode run with a matching reviewer, at least one commit and no
\* failing call enumerates the commits once and the last commit's files once,
\* issues exactly one completion request, and only after it posts exactly one
\* comment, which starts with the model name, the mode and the temperature and
\* goes on with the review text.
C4_FilesModeSequence ==
    /\ ("analyze_commit_files" \in entered /\ comments # <<>>) => calls.completion = 1
    /\ ("analyze_commit_files" \in entered /\ pc = "done") =>
        /\ calls.get_commits = 1
        /\ calls.commit_files = 1
        /\ calls.completion = 1
        /\ Len(comments) = 1
        /\ review.t = "str"
        /\ comments[1] = C4_Prefix \o review.s

\* ---- C5 ------------------------------------------------------------------------
\* process_patch has fetched the patch and it is the empty text
C5_EmptyPatchFetched ==
    "process_patch" \in entered /\ calls.get_patch = 1 /\ patch_content = <<>>

\* C5: in patch mode with an empty patch no prompt is built, no completion
\* request is issued and analyze_patch is not entered; the only step left is
\* posting the fixed comment, and the run that ends normally has posted exactly
\* that one comment.
C5_EmptyPatchPostsFixedComment ==
    C5_EmptyPatchFetched =>
        /\ pc \in {"post_no_changes", "done", "raised"}
        /\ calls.completion = 0
        /\ review_prompt = <<>>
        /\ review = PyUnbound
        /\ "analyze_patch" \notin entered
        /\ pc = "done" => comments = <<NoChangesComment>>
        /\ pc # "done" => comments = <<>>

\* the empty patch was fetched and the run has ended with the fixed comment
C5_Witness ==
    /\ C5_EmptyPatchFetched
    /\ pc = "done"
    /\ comments = <<NoChangesComment>>

\* ---- C6 ------------------------------------------------------------------------
\* a non-empty chunk without a marker, or with nothing after its first marker
C6_Malformed(chgs_text) ==
    /\ chgs_text # <<>>
    /\ \/ FirstIndex(chgs_text, BSLASH) = 0
       \/ FirstIndex(chgs_text, BSLASH) = Len(chgs_text)

\* C6: a malformed chunk does not abort analyze_patch: no IndexError leaves it,
\* and once the loop is over the error has been logged and posted as an
\* "unable to process" comment.
C6_MalformedSegmentRecovered ==
    ("analyze_patch" \in entered /\ \E i \in 1..Len(chunks) : C6_Malformed(chunks[i])) =>
        /\ exc # "IndexError"
        /\ chunk_i > Len(chunks) =>
            /\ "Error processing changes for file" \in log
            /\ \E k \in 1..Len(comments) :
                comments[k][1] = "ChatGPT was unable to process the response for "

\* ---- C7 ------------------------------------------------------------------------
\* the combined content the prompt was built from
C7_PromptContent == IF "analyze_patch" \in entered THEN combined_chgs ELSE combined_content

\* C7: with a CUSTOM_PROMPT configured, the prompt handed to generate_response
\* is the custom template followed by the content and the language, each once,
\* and it holds none of the default rubric.
C7_CustomTemplateUsed ==
    (pc = "post_review" /\ Truthy(env_vars.CUSTOM_PROMPT)) =>
        /\ review_prompt = env_vars.CUSTOM_PROMPT.s \o <<CustomCodeOpen>> \o C7_PromptContent
                           \o <<CustomLanguage>> \o env_vars.LANGUAGE.s \o <<CustomEnd>>
        /\ \A i \in 1..Len(review_prompt) : review_prompt[i] \notin RubricText

\* ---- C8 ------------------------------------------------------------------------
\* C8: with no CUSTOM_PROMPT configured, the default-rubric prompt handed to
\* generate_response names the configured OPENAI_MAX_TOKENS as its token limit
\* and the configured LANGUAGE as its output language.
C8_RubricEmbedsLimitAndLanguage ==
    (pc = "post_review" /\ ~Truthy(env_vars.CUSTOM_PROMPT)) =>
        /\ \E i \in 1..(Len(review_prompt) - 1) :
            /\ review_prompt[i] = RubricIntro
            /\ <<review_prompt[i + 1]>> = env_vars.OPENAI_MAX_TOKENS.s
        /\ \E i \in 1..(Len(review_prompt) - 1) :
            /\ review_prompt[i] = RubricSummarize
            /\ <<review_prompt[i + 1]>> = env_vars.LANGUAGE.s


\* ---- C9 ------------------------------------------------------------------------
\* the file blocks of combined_chgs, each read back as its label and its raw text
C9_Blocks ==
    LET pieces == Tail(SplitOn(combined_chgs, FileHeader))
    IN  [k \in 1..Len(pieces) |->
            LET parts == SplitOn(pieces[k], ChgsOpen)
            IN  [name |-> parts[1], raw |-> SubSeq(parts[2], 1, Len(parts[2]) - 1)]]

\* the segments whose turn of the loop is over
C9_Handled == IF pc = "chunks" THEN chunk_i - 1 ELSE Len(host_segments)

\* the text of seg after its first marker
C9_AfterMarker(seg) == SubSeq(seg, FirstIndex(seg, BSLASH) + 1, Len(seg))

\* the text of s before the first of its tokens that is in stops, all of s if none is
C9_Before(s, stops) ==
    IF \E j \in 1..Len(s) : s[j] \in stops
    THEN SubSeq(s, 1, (CHOOSE j \in 1..Len(s) :
                          s[j] \in stops /\ \A k \in 1..(j - 1) : s[k] \notin stops) - 1)
    ELSE s

\* well-formed as the claim has it: a marker with text after it
C9_StatedWellFormed(seg) ==
    FirstIndex(seg, BSLASH) > 0 /\ C9_AfterMarker(seg) # <<>>

\* well-formed for the code: a marker with text after it that does not start
\* with a second marker
C9_WellFormed(seg) ==
    C9_StatedWellFormed(seg) /\ Head(C9_AfterMarker(seg)) # BSLASH

\* the segments are the patch, and the blocks so far are the segments handled
\* so far, in order, the k-th labelled names[k] and holding its segment unchanged
C9_BlocksAre(names) ==
    /\ exc # "IndexError"
    /\ Len(C9_Blocks) = C9_Handled
    /\ \A k \in 1..C9_Handled :
        /\ C9_Blocks[k].name = names[k]
        /\ C9_Blocks[k].raw = host_segments[k]
    /\ C9_Handled = Len(host_segments) =>
        Join([k \in 1..Len(C9_Blocks) |-> C9_Blocks[k].raw], DIFF) = patch_content

C9_StatedName(seg) == C9_Before(C9_AfterMarker(seg), {NL})
C9_Name(seg) == C9_Before(C9_AfterMarker(seg), {NL, BSLASH})

\* C9 as stated: for a patch of N segments, each holding a marker followed by
\* a line, analyze_patch builds N blocks in segment order, the i-th labelled
\* with the first line after the first marker of the i-th segment and holding
\* the segment unchanged, and the blocks' raw texts joined by the delimiter
\* are the patch.
C9_AsStated ==
    ("analyze_patch" \in entered
        /\ \A k \in 1..Len(host_segments) : C9_StatedWellFormed(host_segments[k]))
    => C9_BlocksAre([k \in 1..Len(host_segments) |-> C9_StatedName(host_segments[k])])

\* What analyze_patch does instead: when the text after each segment's first
\* marker does not start with a second marker, the N segments become N blocks
\* in order, each holding its segment unchanged, but the label stops at the
\* next marker as well as at the end of the line.
SegmentsBecomeBlocks ==
    ("analyze_patch" \in entered
        /\ \A k \in 1..Len(host_segments) : C9_WellFormed(host_segments[k]))
    => C9_BlocksAre([k \in 1..Len(host_segments) |-> C9_Name(host_segments[k])])

\* ---- C10 -----------------------------------------------------------------------
\* the configuration is loaded and MODE is neither "files" nor "patch"
C10_InvalidMode ==
    env_vars # NoEnv /\ env_vars.MODE \notin {PyStr(<<"files">>), PyStr(<<"patch">>)}

\* C10 as stated: with an invalid MODE every run that main finishes has logged
\* the invalid-mode error and posted no comment, whatever the reconciler
\* returned.
C10_AsStated ==
    (C10_InvalidMode /\ pc = "done") => ("Invalid mode" \in log /\ comments = <<>>)

\* C10 amended: with an invalid MODE no run posts a comment or enters
\* process_files or process_patch, and the run that main finishes has logged
\* the invalid-mode error exactly when the reconciler returned the configured
\* reviewer (stripped); on a mismatch only the no-action warning is logged.
C10_InvalidModePostsNothing ==
    C10_InvalidMode =>
        /\ comments = <<>>
        /\ entered = {}
        /\ pc \in {"clients", "timeline", "resolved", "done", "raised"}
        /\ pc = "done" =>
            /\ "Invalid mode" \in log <=> most_recent = PyStr(Strip(env_vars.GITHUB_REVIEWER.s))
            /\ "No action taken" \in log <=> most_recent # PyStr(Strip(env_vars.GITHUB_REVIEWER.s))

\* MODE is invalid, the reviewer matched, and the run ended with the error logged
C10_Witness ==
    /\ C10_InvalidMode
    /\ pc = "done"
    /\ most_recent = PyStr(<<"alice">>)
    /\ "Invalid mode" \in log


\* ---- C11 -----------------------------------------------------------------------
\* the environment cannot be loaded: a required variable is unset or empty, or
\* the text of GITHUB_PR_ID, OPENAI_MAX_TOKENS or OPENAI_TEMPERATURE is not a
\* literal of its type
C11_LoadFails ==
    \/ \E var \in VarNames \ {"CUSTOM_PROMPT"} : environ[var] \in {PyNone, PyStr(<<>>)}
    \/ \E var \in {"GITHUB_PR_ID", "OPENAI_MAX_TOKENS"} :
        environ[var].t = "str" /\ environ[var].s \notin {<<tok>> : tok \in IntLiterals}
    \/ /\ environ.OPENAI_TEMPERATURE.t = "str"
       /\ environ.OPENAI_TEMPERATURE.s \notin {<<tok>> : tok \in FloatLiterals}

\* C11: in a run whose environment cannot be loaded, main never gets past
\* get_env_vars: no client is constructed, no call goes to the host or to the
\* model, no timeline page is requested, get_most_recent_reviewer returns
\* nothing, neither process_files nor process_patch is called, and no comment
\* is posted.
C11_FailedLoadDoesNothing ==
    C11_LoadFails =>
        /\ pc \in {"start", "done"}
        /\ env_vars = NoEnv
        /\ calls = NoCalls
        /\ page_requests = <<>>
        /\ fetched = <<>>
        /\ most_recent = PyUnbound
        /\ dispatched = <<>>
        /\ entered = {}
        /\ comments = <<>>

\* a run ended by GITHUB_PR_ID=abc
C11_Witness ==
    /\ environ.GITHUB_PR_ID = PyStr(<<"abc">>)
    /\ pc = "done"
    /\ "Environment variable error" \in log
    /\ calls = NoCalls
    /\ comments = <<>>

\* a run ended by an unset GH_TOKEN
C11_MissingWitness ==
    /\ environ.GH_TOKEN = PyNone
    /\ pc = "done"
    /\ "Environment variable error" \in log


\* ---- C12 -----------------------------------------------------------------------
\* a run that main's except ValueError ended
C12_ConfigError == pc = "done" /\ "Environment variable error" \in log

\* C12: a run ended by a configuration error leaves the process with a status
\* other than zero.
C12_ConfigErrorExitsNonZero == C12_ConfigError => ExitStatus # 0


\* ---- C13 -----------------------------------------------------------------------
\* main is past its reviewer check, and the login get_most_recent_reviewer
\* returned was main's reviewer
C13_Matched ==
    /\ pc \notin {"start", "clients", "timeline", "resolved"}
    /\ most_recent = Reviewer(env_vars)

\* the argument tuple the claim names, read from the loaded configuration
C13_Args ==
    <<"github_client", "openai_client", env_vars.GITHUB_PR_ID, env_vars.LANGUAGE,
      env_vars.CUSTOM_PROMPT, env_vars.OPENAI_MODEL, env_vars.MODE,
      env_vars.OPENAI_TEMPERATURE>>

\* C13: once the configuration is loaded and the reviewer matched, main has
\* made exactly one call for its mode, for the rest of the run: with "files"
\* one call of process_files with (github client, openai client, pr id,
\* language, custom prompt, model, mode, temperature) and no process_patch,
\* with "patch" one call of process_patch with the same tuple and no
\* process_files; before the reviewer check no call has been made.
C13_DispatchesOnce ==
    /\ pc \in {"start", "clients", "timeline", "resolved"} => dispatched = <<>>
    /\ C13_Matched /\ env_vars.MODE = PyStr(<<"files">>) =>
        /\ dispatched = <<[fn |-> "process_files", args |-> C13_Args]>>
        /\ "process_files" \in entered
        /\ "process_patch" \notin entered
    /\ C13_Matched /\ env_vars.MODE = PyStr(<<"patch">>) =>
        /\ dispatched = <<[fn |-> "process_patch", args |-> C13_Args]>>
        /\ "process_patch" \in entered
        /\ "process_files" \notin entered

\* the run of test_main_files_mode, after its comment is posted
C13_Witness ==
    /\ C13_Matched
    /\ pc = "done"
    /\ Len(comments) = 1
    /\ dispatched = <<[fn |-> "process_files",
                       args |-> <<"github_client", "openai_client", PyInt("123"),
                                  PyStr(<<"en">>), PyNone, PyStr(<<"gpt-4">>),
                                  PyStr(<<"files">>), PyFloat("0.7")>>]>>

\* the run of test_main_patch_mode, inside process_patch
C13_PatchWitness ==
    /\ C13_Matched
    /\ pc = "chunks"
    /\ dispatched = <<[fn |-> "process_patch",
                       args |-> <<"github_client", "openai_client", PyInt("123"),
                                  PyStr(<<"en">>), PyNone, PyStr(<<"gpt-4">>),
                                  PyStr(<<"patch">>), PyFloat("0.7")>>]>>


\* ---- C14 -----------------------------------------------------------------------
\* the positions whose next step is a call to the host
C14_Calls ==
    {"clients", "timeline", "get_pr", "get_commits", "commit_files", "file_content",
     "get_patch", "post_no_changes", "post_review"}

\* the log l records a failed call
C14_Failed(l) == \E p \in C14_Calls : ("Error at " \o p) \in l

\* C14: the step in which a call to the host fails raises out of main: it
\* returns nothing from get_most_recent_reviewer (a failure on a timeline page
\* leaves no login, whatever the pages before it held), makes no other call
\* and posts no comment, and no comment was posted before it; and the run
\* takes no step after a failure, so the call is not made again, no later
\* call is made and no comment follows.
C14_FailureEndsRun ==
    [][ /\ ~C14_Failed(log)
        /\ C14_Failed(log') =>
            /\ pc' = "raised"
            /\ exc' = "RequestError"
            /\ calls' = calls
            /\ Len(page_requests') <= Len(page_requests) + 1
            /\ comments = <<>>
            /\ comments' = <<>>
            /\ most_recent' = most_recent
            /\ pc = "timeline" => most_recent' = PyUnbound
      ]_vars

\* the second timeline page failed after the first held a review request
C14_Witness ==
    /\ pc = "raised"
    /\ exc = "RequestError"
    /\ "Error at timeline" \in log
    /\ Len(page_requests) = 2
    /\ filtered_events # <<>>
    /\ most_recent = PyUnbound
    /\ comments = <<>>

\* the fetch of the second file's content failed in analyze_commit_files
C14_FileContentWitness ==
    /\ pc = "raised"
    /\ "Error at file_content" \in log
    /\ file_i = 2
    /\ combined_content # <<>>
    /\ comments = <<>>


\* ---- C15 -----------------------------------------------------------------------
\* the pages served so far that hold events
C15_NonEmpty == {i \in 1..Len(fetched) : fetched[i] # <<>>}

\* C15: the i-th timeline request of get_most_recent_reviewer asks for page i
\* with 100 events per page, so the pages go up from 1 and none is asked for
\* twice; while the loop runs every page served held events and each was
\* requested once; the loop is over in the state an empty page is served, and
\* when it returns after k pages with events it has sent exactly k + 1
\* requests, the empty page being the last one served.
C15_PagesInOrderUntilEmpty ==
    /\ \A i \in 1..Len(page_requests) : page_requests[i] = [page |-> i, per_page |-> 100]
    /\ \A i \in 1..Len(fetched) : fetched[i] = <<>> => pc # "timeline" /\ i = Len(fetched)
    /\ pc = "timeline" =>
        /\ Len(page_requests) = Len(fetched)
        /\ page = Len(page_requests) + 1
    /\ pc = "resolved" =>
        /\ Len(page_requests) = Cardinality(C15_NonEmpty) + 1
        /\ Len(fetched) = Len(page_requests)
        /\ fetched[Len(fetched)] = <<>>

\* a timeline of two pages with events: three requests, for pages 1, 2 and 3
C15_Witness ==
    /\ pc = "resolved"
    /\ Cardinality(C15_NonEmpty) = 2
    /\ page_requests = <<[page |-> 1, per_page |-> 100], [page |-> 2, per_page |-> 100],
                         [page |-> 3, per_page |-> 100]>>

\* a timeline without events: one request, and None returned
C15_EmptyTimelineWitness ==
    /\ pc = "resolved"
    /\ fetched = <<<<>>>>
    /\ page_requests = <<[page |-> 1, per_page |-> 100]>>
    /\ most_recent = PyNone

====
